---- MODULE Spec2Model ----
(***************************************************************************)
(* Model of the OCPay Node.js SDK: the request validators, the HTTP client *)
(* with its error classifier, and the two service operations createLink    *)
(* and checkPayment.                                                       *)
(*                                                                         *)
(* JavaScript values are records tagged by a field t.  A string whose      *)
(* characters matter (trim, length, startsWith, URL parsing) is            *)
(* Chars(<<"h","t",...>>); a string used only as a token or for its        *)
(* truthiness is Str("...").  A JavaScript number is held in halves, so    *)
(* that 499.5 is Num(999) and Number.isInteger is a parity test.           *)
(***************************************************************************)
EXTENDS Integers, Sequences, FiniteSets, TLC

VARIABLES
  calls,     \* the invocations of createLink and checkPayment
  passed,    \* history: the argument of each invocation as it was passed
  client,    \* the Client: its access token and its HTTP client's defaults
  ctorArgs   \* history: the arguments the Client was constructed with

vars == <<calls, passed, client, ctorArgs>>

---------------------------------------------------------------------------
(* JavaScript values *)

Undefined == [t |-> "undefined"]
Null == [t |-> "null"]
NaN == [t |-> "NaN"]
True == [t |-> "boolean", b |-> TRUE]
False == [t |-> "boolean", b |-> FALSE]
Str(v) == [t |-> "string", v |-> v]
Chars(s) == [t |-> "string", s |-> s]
Num(h) == [t |-> "number", halves |-> h]
Whole(n) == Num(2 * n)

\* JavaScript truthiness, as used by !x, x && y and x || y.
Truthy(x) ==
  CASE x.t = "undefined" -> FALSE
    [] x.t = "null" -> FALSE
    [] x.t = "NaN" -> FALSE
    [] x.t = "boolean" -> x.b
    [] x.t = "number" -> x.halves # 0
    [] x.t = "string" -> IF "s" \in DOMAIN x THEN Len(x.s) > 0 ELSE x.v # ""
    [] OTHER -> TRUE

\* a || b
OrElse(a, b) == IF Truthy(a) THEN a ELSE b

\* The optional-chaining read v?.f: undefined on undefined, on null, on a
\* primitive and on an object without the property.
Get(v, f) == IF v.t = "object" /\ f \in DOMAIN v THEN v[f] ELSE Undefined

\* c repeated n times
Rep(c, n) == [i \in 1..n |-> c]

Whitespace == {" ", "\t", "\n"}

\* s without its leading whitespace
TrimStart(s) ==
  IF \E i \in 1..Len(s) : s[i] \notin Whitespace
    THEN SubSeq(s, CHOOSE i \in 1..Len(s) :
                     s[i] \notin Whitespace /\ \A j \in 1..(i - 1) : s[j] \in Whitespace,
                Len(s))
    ELSE <<>>

\* s without its trailing whitespace
TrimEnd(s) ==
  IF \E i \in 1..Len(s) : s[i] \notin Whitespace
    THEN SubSeq(s, 1, CHOOSE i \in 1..Len(s) :
                        s[i] \notin Whitespace /\ \A j \in (i + 1)..Len(s) : s[j] \in Whitespace)
    ELSE <<>>

\* Mutant: the string is not trimmed.
Trim_None(s) == s

\* String.prototype.trim
Trim(s) == TrimEnd(TrimStart(s))

\* String.prototype.startsWith
StartsWith(s, p) == Len(s) >= Len(p) /\ SubSeq(s, 1, Len(p)) = p

\* Number.isInteger: false for every non-number, NaN included.
IsInteger(x) == x.t = "number" /\ x.halves % 2 = 0

\* Mutant: the lower bound tested with <= instead of <.
LessThan_OrEqual(x, n) == x.halves <= 2 * n

\* x < n and x > n for a number x and an integer literal n
LessThan(x, n) == x.halves < 2 * n
GreaterThan(x, n) == x.halves > 2 * n

---------------------------------------------------------------------------
(* Errors and the exception classes *)

\* new Error(message): no statusCode, requestId or errorData property.
PlainError(m) == [kind |-> "Error", message |-> Str(m)]

\* The TypeError the runtime raises on a property read of null or undefined.
TypeError == [kind |-> "TypeError", message |-> Str("Cannot read properties")]

\* The OCPayException constructor, reached through each subclass's super().
OCPayException(kind, message, statusCode, requestId, errorData) ==
  [kind |-> kind, message |-> message, statusCode |-> statusCode,
   requestId |-> requestId, errorData |-> errorData]

ApiException(message, statusCode, requestId, errorData) ==
  OCPayException("ApiException", message, statusCode, requestId, errorData)

ValidationException(message, statusCode, requestId, errorData) ==
  OCPayException("ValidationException", message, statusCode, requestId, errorData)

UnauthorizedException(message, statusCode, requestId, errorData) ==
  OCPayException("UnauthorizedException", message, statusCode, requestId, errorData)

NotFoundException(message, statusCode, requestId, errorData) ==
  OCPayException("NotFoundException", message, statusCode, requestId, errorData)

PaymentExpiredException(message, statusCode, requestId, errorData) ==
  OCPayException("PaymentExpiredException", message, statusCode, requestId, errorData)

SpecialisedKinds ==
  {"ValidationException", "UnauthorizedException", "NotFoundException",
   "PaymentExpiredException"}

ApiKinds == SpecialisedKinds \cup {"ApiException"}

\* e instanceof cls, by the extends chain of the exception classes.
InstanceOf(e, cls) ==
  CASE cls = "Error" -> TRUE
    [] cls = "OCPayException" -> e.kind \in ApiKinds \cup {"OCPayException"}
    [] cls = "ApiException" -> e.kind \in ApiKinds
    [] OTHER -> e.kind = cls

---------------------------------------------------------------------------
(* Validators *)

FeeModeValues == {"NO_FEE", "SPLIT_FEE", "CUSTOMER_FEE"}

MaxTitleLength == 200
MinAmount == 500
MaxAmount == 500000
MaxDescriptionLength == 1000
MaxSuccessMessageLength == 500

MsgProductInfoRequired == "Product info is required"
MsgTitleRequired == "Product title is required"
MsgTitleTooLong == "Product title must not exceed 200 characters"
MsgAmountWhole == "Amount must be a whole number (no decimals)"
MsgAmountMin == "Amount must be at least 500 DZD"
MsgAmountMax == "Amount must not exceed 500,000 DZD"
MsgDescriptionTooLong == "Product description must not exceed 1000 characters"
MsgInvalidFeeMode == "Invalid fee mode. Must be one of: NO_FEE, SPLIT_FEE, CUSTOMER_FEE"
MsgSuccessMessageTooLong == "Success message must not exceed 500 characters"
MsgInvalidRedirectUrl == "Redirect URL must be a valid HTTP/HTTPS URL"
MsgPaymentRefRequired == "Payment reference is required"

\* A validator's result: Passed, or the error it throws.
Passed == [kind |-> "none"]

\* Mutant: the range of the amount is tested before its being whole.
validateProductInfo_RangeFirst(productInfo) ==
  LET title == Get(productInfo, "title")
      amount == Get(productInfo, "amount")
      description == Get(productInfo, "description")
  IN  IF ~Truthy(title) \/ Len(Trim(title.s)) = 0
        THEN PlainError(MsgTitleRequired)
      ELSE IF Len(title.s) > MaxTitleLength
        THEN PlainError(MsgTitleTooLong)
      ELSE IF amount.t = "number" /\ LessThan(amount, MinAmount)
        THEN PlainError(MsgAmountMin)
      ELSE IF amount.t = "number" /\ GreaterThan(amount, MaxAmount)
        THEN PlainError(MsgAmountMax)
      ELSE IF ~IsInteger(amount)
        THEN PlainError(MsgAmountWhole)
      ELSE IF Truthy(description) /\ Len(description.s) > MaxDescriptionLength
        THEN PlainError(MsgDescriptionTooLong)
      ELSE Passed

validateProductInfo(productInfo) ==
  LET title == Get(productInfo, "title")
      amount == Get(productInfo, "amount")
      description == Get(productInfo, "description")
  IN  IF ~Truthy(title) \/ Len(Trim(title.s)) = 0
        THEN PlainError(MsgTitleRequired)
      ELSE IF Len(title.s) > MaxTitleLength
        THEN PlainError(MsgTitleTooLong)
      ELSE IF ~IsInteger(amount)
        THEN PlainError(MsgAmountWhole)
      ELSE IF LessThan(amount, MinAmount)
        THEN PlainError(MsgAmountMin)
      ELSE IF GreaterThan(amount, MaxAmount)
        THEN PlainError(MsgAmountMax)
      ELSE IF Truthy(description) /\ Len(description.s) > MaxDescriptionLength
        THEN PlainError(MsgDescriptionTooLong)
      ELSE Passed

\* Mutant: the fee mode compared without regard to case.
validateFeeMode_AnyCase(feeMode) ==
  IF ~(feeMode.t = "string" /\ feeMode.v \in FeeModeValues \cup {"no_fee"})
    THEN PlainError(MsgInvalidFeeMode)
    ELSE Passed

validateFeeMode(feeMode) ==
  IF ~(feeMode.t = "string" /\ feeMode.v \in FeeModeValues)
    THEN PlainError(MsgInvalidFeeMode)
    ELSE Passed

---------------------------------------------------------------------------
(* The URL constructor of the runtime, as far as isValidUrl needs it: does *)
(* the string parse without a base, and with which scheme.  Follows the    *)
(* WHATWG basic URL parser: leading and trailing spaces are stripped, the  *)
(* scheme is letters, digits, +, - and . up to the first colon and is      *)
(* lower-cased, and a special scheme needs a non-empty host after any      *)
(* number of slashes.  Credentials, ports and percent-encoding are left    *)
(* out; the strings of UrlStrings use none of them.                        *)

LowerLetters ==
  <<"a", "b", "c", "d", "e", "f", "g", "h", "i", "j", "k", "l", "m",
    "n", "o", "p", "q", "r", "s", "t", "u", "v", "w", "x", "y", "z">>

UpperLetters ==
  <<"A", "B", "C", "D", "E", "F", "G", "H", "I", "J", "K", "L", "M",
    "N", "O", "P", "Q", "R", "S", "T", "U", "V", "W", "X", "Y", "Z">>

Digits == {"0", "1", "2", "3", "4", "5", "6", "7", "8", "9"}

IsAlpha(c) == \E i \in 1..26 : c = LowerLetters[i] \/ c = UpperLetters[i]

ToLower(c) ==
  IF \E i \in 1..26 : c = UpperLetters[i]
    THEN LowerLetters[CHOOSE i \in 1..26 : c = UpperLetters[i]]
    ELSE c

LowerCase(s) == [i \in 1..Len(s) |-> ToLower(s[i])]

\* Index of the first character of s that is in set, 0 when there is none.
IndexOfAny(s, set) ==
  IF \E i \in 1..Len(s) : s[i] \in set
    THEN CHOOSE i \in 1..Len(s) :
           s[i] \in set /\ \A j \in 1..(i - 1) : s[j] \notin set
    ELSE 0

RECURSIVE SkipSlashes(_)
SkipSlashes(s) ==
  IF s # <<>> /\ Head(s) \in {"/", "\\"} THEN SkipSlashes(Tail(s)) ELSE s

SpecialSchemes ==
  {<<"h", "t", "t", "p">>, <<"h", "t", "t", "p", "s">>, <<"f", "t", "p">>,
   <<"w", "s">>, <<"w", "s", "s">>}

ForbiddenHostChars == {" ", "<", ">", "^", "|", "%", "[", "]"}

ParseFailure == [ok |-> FALSE, scheme |-> <<>>]

ParseUrl(input) ==
  LET u == Trim(input)
      colon == IndexOfAny(u, {":"})
      rawScheme == SubSeq(u, 1, colon - 1)
      scheme == LowerCase(rawScheme)
      rest == SkipSlashes(SubSeq(u, colon + 1, Len(u)))
      hostEnd == IndexOfAny(rest, {"/", "?", "#", "\\"})
      host == IF hostEnd = 0 THEN rest ELSE SubSeq(rest, 1, hostEnd - 1)
  IN  IF colon <= 1 \/ ~IsAlpha(u[1])
        THEN ParseFailure
      ELSE IF \E i \in 1..Len(rawScheme) :
                ~IsAlpha(rawScheme[i]) /\ rawScheme[i] \notin Digits \cup {"+", "-", "."}
        THEN ParseFailure
      ELSE IF scheme \in SpecialSchemes
                /\ (host = <<>> \/ \E i \in 1..Len(host) : host[i] \in ForbiddenHostChars)
        THEN ParseFailure
      ELSE [ok |-> TRUE, scheme |-> scheme]

HttpPrefix == <<"h", "t", "t", "p", ":", "/", "/">>
HttpsPrefix == <<"h", "t", "t", "p", "s", ":", "/", "/">>

isValidUrl(url) ==
  IF ParseUrl(url.s).ok
    THEN StartsWith(url.s, HttpPrefix) \/ StartsWith(url.s, HttpsPrefix)
    ELSE FALSE

validateCreateLinkRequest(request) ==
  LET productInfo == Get(request, "productInfo")
      feeMode == Get(request, "feeMode")
      successMessage == Get(request, "successMessage")
      redirectUrl == Get(request, "redirectUrl")
  IN  IF ~Truthy(productInfo)
        THEN PlainError(MsgProductInfoRequired)
      ELSE IF validateProductInfo(productInfo) # Passed
        THEN validateProductInfo(productInfo)
      ELSE IF Truthy(feeMode) /\ validateFeeMode(feeMode) # Passed
        THEN validateFeeMode(feeMode)
      ELSE IF Truthy(successMessage) /\ Len(successMessage.s) > MaxSuccessMessageLength
        THEN PlainError(MsgSuccessMessageTooLong)
      ELSE IF Truthy(redirectUrl) /\ ~isValidUrl(redirectUrl)
        THEN PlainError(MsgInvalidRedirectUrl)
      ELSE Passed

---------------------------------------------------------------------------
(* HTTP client *)

MsgApiRequestFailed == "API request failed"

\* A function's completion: a returned value or a thrown error.
Return(v) == [threw |-> FALSE, value |-> v]
Throw(e) == [threw |-> TRUE, error |-> e]

\* Mutant: the body's message is dropped from the exception.
handleResponse_FixedMessage(data) ==
  IF data.t \in {"null", "undefined"}
    THEN Throw(TypeError)
  ELSE IF Get(data, "success") = False
    THEN Throw(ApiException(Str(MsgApiRequestFailed), Whole(0),
                            Get(Get(data, "meta"), "requestId"), data))
  ELSE Return(data)

\* Mutant: every falsy success is taken for a failure.
handleResponse_Falsy(data) ==
  IF data.t \in {"null", "undefined"}
    THEN Throw(TypeError)
  ELSE IF ~Truthy(Get(data, "success"))
    THEN Throw(ApiException(OrElse(Get(data, "message"), Str(MsgApiRequestFailed)),
                            Whole(0),
                            Get(Get(data, "meta"), "requestId"),
                            data))
  ELSE Return(data)

\* Client.handleResponse.  data.success on null or undefined is a TypeError
\* of the runtime; on a string body the read gives undefined.
handleResponse(data) ==
  IF data.t \in {"null", "undefined"}
    THEN Throw(TypeError)
  ELSE IF Get(data, "success") = False
    THEN Throw(ApiException(OrElse(Get(data, "message"), Str(MsgApiRequestFailed)),
                            Whole(0),
                            Get(Get(data, "meta"), "requestId"),
                            data))
  ELSE Return(data)

\* Mutant: the switch has no case for 410.
handleException_NoGone(error) ==
  LET response == Get(error, "response")
      statusCode == OrElse(Get(response, "status"), Whole(0))
      data == Get(response, "data")
      requestId == Get(Get(data, "meta"), "requestId")
      message == OrElse(Get(data, "message"), Get(error, "message"))
  IN  CASE statusCode = Whole(400) ->
             ValidationException(message, statusCode, requestId, data)
        [] statusCode = Whole(403) ->
             UnauthorizedException(message, statusCode, requestId, data)
        [] statusCode = Whole(404) ->
             NotFoundException(message, statusCode, requestId, data)
        [] OTHER ->
             ApiException(message, statusCode, requestId, data)

\* Mutant: the request id is read from the body instead of its meta.
handleException_BodyRequestId(error) ==
  LET response == Get(error, "response")
      statusCode == OrElse(Get(response, "status"), Whole(0))
      data == Get(response, "data")
      requestId == Get(data, "requestId")
      message == OrElse(Get(data, "message"), Get(error, "message"))
  IN  CASE statusCode = Whole(400) ->
             ValidationException(message, statusCode, requestId, data)
        [] statusCode = Whole(403) ->
             UnauthorizedException(message, statusCode, requestId, data)
        [] statusCode = Whole(404) ->
             NotFoundException(message, statusCode, requestId, data)
        [] statusCode = Whole(410) ->
             PaymentExpiredException(message, statusCode, requestId, data)
        [] OTHER ->
             ApiException(message, statusCode, requestId, data)

\* Client.handleException
handleException(error) ==
  LET response == Get(error, "response")
      statusCode == OrElse(Get(response, "status"), Whole(0))
      data == Get(response, "data")
      requestId == Get(Get(data, "meta"), "requestId")
      message == OrElse(Get(data, "message"), Get(error, "message"))
  IN  CASE statusCode = Whole(400) ->
             ValidationException(message, statusCode, requestId, data)
        [] statusCode = Whole(403) ->
             UnauthorizedException(message, statusCode, requestId, data)
        [] statusCode = Whole(404) ->
             NotFoundException(message, statusCode, requestId, data)
        [] statusCode = Whole(410) ->
             PaymentExpiredException(message, statusCode, requestId, data)
        [] OTHER ->
             ApiException(message, statusCode, requestId, data)

\* The HTTP request that Client.post hands to the transport.
post(endpoint, data) == [method |-> "POST", url |-> endpoint, data |-> data]

\* The HTTP request that Client.get hands to the transport.
get(endpoint) == [method |-> "GET", url |-> endpoint, data |-> Undefined]

---------------------------------------------------------------------------
(* Client construction *)

BASE_URL == Str("https://api.oneclickdz.com")
HEADER_ACCESS_TOKEN == "X-Access-Token"
HEADER_CONTENT_TYPE == "Content-Type"
CONTENT_TYPE_JSON == Str("application/json")

DefaultTimeout == 30000

\* options = {}
DefaultOptions == [t |-> "object"]

\* A headers object: its entries map header names to values.
Headers(entries) == [t |-> "object", entries |-> entries]

NoEntries == [h \in {} |-> Str("")]

\* ...x inside an object literal: the entries of x, none for undefined.
Spread(x) == IF x.t = "object" THEN x.entries ELSE NoEntries

\* Mutant: for a name present in both, the first mapping's value stands.
Merge_FirstWins(a, b) ==
  [h \in DOMAIN a \cup DOMAIN b |-> IF h \in DOMAIN a THEN a[h] ELSE b[h]]

\* {...a, ...b}: where both have a name, b's value stands.
Merge(a, b) ==
  [h \in DOMAIN a \cup DOMAIN b |-> IF h \in DOMAIN b THEN b[h] ELSE a[h]]

\* The two headers the constructor always sets.
BuiltInHeaders(accessToken) ==
  [h \in {HEADER_ACCESS_TOKEN, HEADER_CONTENT_TYPE} |->
     IF h = HEADER_ACCESS_TOKEN THEN accessToken ELSE CONTENT_TYPE_JSON]

\* Client.constructor: the access token and the defaults given to
\* axios.create.
Client(accessToken, options) ==
  [accessToken |-> accessToken,
   httpClient |->
     [baseURL |-> OrElse(Get(options, "baseURL"), BASE_URL),
      timeout |-> OrElse(Get(options, "timeout"), Whole(DefaultTimeout)),
      headers |-> Merge(BuiltInHeaders(accessToken), Spread(Get(options, "headers")))]]

\* What the HTTP client transmits for a request handed to it: the request
\* with the instance's base URL, timeout and default headers.
transmitted(httpClient, request) ==
  [method |-> request.method, url |-> request.url, data |-> request.data,
   baseURL |-> httpClient.baseURL, timeout |-> httpClient.timeout,
   headers |-> httpClient.headers]

---------------------------------------------------------------------------
(* Inputs: the arguments callers pass and the replies the transport gives *)

\* How many fields of a request may differ from BaseRequest.
MaxDeviations == 2

\* The invocations of a run.
CallIds == {1}

Object(productInfo, feeMode, successMessage, redirectUrl) ==
  [t |-> "object", productInfo |-> productInfo, feeMode |-> feeMode,
   successMessage |-> successMessage, redirectUrl |-> redirectUrl]

Product(title, amount, description) ==
  [t |-> "object", title |-> title, amount |-> amount, description |-> description]

BaseTitle == Chars(<<"O", "r", "d", "e", "r">>)
BaseAmount == Whole(5000)
Host == <<"a", ".", "d", "z">>

Titles ==
  {BaseTitle, Undefined, Chars(<<>>), Chars(<<" ">>), Chars(<<" ", "a", " ">>),
   Chars(Rep("a", MaxTitleLength)), Chars(Rep("a", MaxTitleLength + 1)),
   Chars(Rep(" ", MaxTitleLength + 1))}

Amounts ==
  {BaseAmount, Undefined, NaN, Str("5000"), Whole(-1), Whole(0),
   Whole(MinAmount - 1), Whole(MinAmount), Num(2 * MinAmount - 1),
   Num(2 * MinAmount + 1), Whole(MaxAmount), Num(2 * MaxAmount + 1),
   Whole(MaxAmount + 1)}

Descriptions ==
  {Undefined, Chars(<<>>), Chars(Rep("d", MaxDescriptionLength)),
   Chars(Rep("d", MaxDescriptionLength + 1))}

FeeModes ==
  {Undefined, Null, Str(""), Str("NO_FEE"), Str("SPLIT_FEE"), Str("CUSTOMER_FEE"),
   Str("no_fee"), Str("FREE")}

SuccessMessages ==
  {Undefined, Chars(Rep("m", MaxSuccessMessageLength)),
   Chars(Rep("m", MaxSuccessMessageLength + 1))}

UrlStrings ==
  {<<>>,
   HttpPrefix \o Host,
   HttpsPrefix \o Host \o <<"/", "o", "k">>,
   <<"H", "T", "T", "P", ":", "/", "/">> \o Host,
   <<"H", "t", "t", "p", "s", ":", "/", "/">> \o Host,
   <<"h", "t", "t", "p", ":">> \o Host,
   <<" ">> \o HttpPrefix \o Host,
   HttpPrefix \o <<"a", " ", "b">>,
   HttpPrefix,
   <<"f", "t", "p", ":", "/", "/">> \o Host,
   <<"m", "a", "i", "l", "t", "o", ":", "a">>,
   <<"/", "o", "k">>,
   Host}

RedirectUrls == {Undefined} \cup {Chars(u) : u \in UrlStrings}

BaseRequest ==
  Object(Product(BaseTitle, BaseAmount, Undefined), Undefined, Undefined, Undefined)

One(c) == IF c THEN 1 ELSE 0

\* The number of fields in which a productInfo differs from BaseRequest's
\* (an absent productInfo counts as one).
ProductDeviations(p) ==
  IF p = Undefined
    THEN 1
    ELSE One(p.title # BaseTitle) + One(p.amount # BaseAmount)
           + One(p.description # Undefined)

\* The number of fields in which request differs from BaseRequest.
Deviations(request) ==
  ProductDeviations(request.productInfo)
    + One(request.feeMode # Undefined)
    + One(request.successMessage # Undefined)
    + One(request.redirectUrl # Undefined)

ProductInfos ==
  {p \in {Undefined} \cup
          {Product(ti, a, d) : ti \in Titles, a \in Amounts, d \in Descriptions} :
     ProductDeviations(p) <= MaxDeviations}

Options ==
  {o \in [feeMode : FeeModes, successMessage : SuccessMessages,
          redirectUrl : RedirectUrls] :
     One(o.feeMode # Undefined) + One(o.successMessage # Undefined)
       + One(o.redirectUrl # Undefined) <= MaxDeviations}

\* The requests callers pass: BaseRequest changed in at most MaxDeviations
\* fields.
Requests ==
  {r \in {Object(p, o.feeMode, o.successMessage, o.redirectUrl) :
            p \in ProductInfos, o \in Options} :
     Deviations(r) <= MaxDeviations}

PaymentRefs ==
  {Undefined, Chars(<<>>), Chars(<<" ">>), Chars(<<" ", "\t">>),
   Chars(<<"O", "C", "P", "L", "-", "A", "1">>),
   Chars(<<" ", "O", "C", "P", "L", "-", "A", "1">>),
   Chars(<<"x", "/", "y">>)}

\* The status codes the transport resolves with (axios' default
\* validateStatus: 2xx) and those it rejects with.
OkStatuses == {200, 201}
FailStatuses == {400, 401, 403, 404, 410, 500}

Metas ==
  {Undefined, [t |-> "object", requestId |-> Undefined],
   [t |-> "object", requestId |-> Str("req-1")]}

Envelope(success, data, message, meta) ==
  [t |-> "object", success |-> success, data |-> data, message |-> message,
   meta |-> meta]

\* Response bodies: JSON envelopes, the JSON literal null, and the empty
\* string the transport gives for an empty body.
Bodies ==
  {Null, Str("")} \cup
  {Envelope(s, d, m, meta) :
     s \in {True, False, Null, Undefined},
     d \in {Undefined, Str("payload")},
     m \in {Undefined, Str(""), Str("Link expired")},
     meta \in Metas}

HttpResponse(status, body) == [t |-> "object", status |-> Whole(status), data |-> body]

\* The errors the transport rejects with: a response with a non-2xx status,
\* or no response at all (network failure, timeout).
AxiosErrors ==
  {[t |-> "object", response |-> HttpResponse(st, b), message |-> Str("Request failed")] :
     st \in FailStatuses, b \in Bodies}
  \cup
  {[t |-> "object", response |-> Undefined, message |-> Str(m)] :
     m \in {"Network Error", "timeout exceeded"}}

---------------------------------------------------------------------------
(* OCPayService *)

ENDPOINT_CREATE_LINK ==
  <<"/", "v", "3", "/", "o", "c", "p", "a", "y", "/",
    "c", "r", "e", "a", "t", "e", "L", "i", "n", "k">>

ENDPOINT_CHECK_PAYMENT ==
  <<"/", "v", "3", "/", "o", "c", "p", "a", "y", "/",
    "c", "h", "e", "c", "k", "P", "a", "y", "m", "e", "n", "t">>

\* An invocation: the operation and its argument (the caller's object, as
\* it stands after what the operation did to it), where it stands (idle,
\* awaiting the transport, resolved, rejected), the HTTP requests it has
\* issued, the reply the transport gave, and what the caller got.
Idle ==
  [op |-> "none", arg |-> Undefined, pc |-> "idle", sent |-> <<>>,
   reply |-> Undefined, outcome |-> Undefined]

\* The body createLink sends: the request with feeMode defaulted.
requestData(request) ==
  [request EXCEPT !.feeMode = OrElse(request.feeMode, Str("NO_FEE"))]

\* Mutant: the request is posted before it is validated.
createLink_PostFirst(request) ==
  IF validateCreateLinkRequest(request) # Passed
    THEN [op |-> "createLink", arg |-> request, pc |-> "rejected",
          sent |-> <<post(Chars(ENDPOINT_CREATE_LINK), requestData(request))>>,
          reply |-> Undefined, outcome |-> validateCreateLinkRequest(request)]
    ELSE [op |-> "createLink", arg |-> request, pc |-> "awaiting",
          sent |-> <<post(Chars(ENDPOINT_CREATE_LINK), requestData(request))>>,
          reply |-> Undefined, outcome |-> Undefined]

\* Mutant: the default fee mode is written into the caller's request.
createLink_InPlace(request) ==
  IF validateCreateLinkRequest(request) # Passed
    THEN [op |-> "createLink", arg |-> request, pc |-> "rejected", sent |-> <<>>,
          reply |-> Undefined, outcome |-> validateCreateLinkRequest(request)]
    ELSE [op |-> "createLink", arg |-> requestData(request), pc |-> "awaiting",
          sent |-> <<post(Chars(ENDPOINT_CREATE_LINK), requestData(request))>>,
          reply |-> Undefined, outcome |-> Undefined]

\* OCPayService.createLink up to its await.
createLink(request) ==
  IF validateCreateLinkRequest(request) # Passed
    THEN [op |-> "createLink", arg |-> request, pc |-> "rejected", sent |-> <<>>,
          reply |-> Undefined, outcome |-> validateCreateLinkRequest(request)]
    ELSE [op |-> "createLink", arg |-> request, pc |-> "awaiting",
          sent |-> <<post(Chars(ENDPOINT_CREATE_LINK), requestData(request))>>,
          reply |-> Undefined, outcome |-> Undefined]

\* Mutant: the blank reference is reported as a ValidationException.
checkPayment_Typed(paymentRef) ==
  IF ~Truthy(paymentRef) \/ Len(Trim(paymentRef.s)) = 0
    THEN [op |-> "checkPayment", arg |-> paymentRef, pc |-> "rejected", sent |-> <<>>,
          reply |-> Undefined,
          outcome |-> ValidationException(Str(MsgPaymentRefRequired), Whole(400),
                                          Undefined, Undefined)]
    ELSE [op |-> "checkPayment", arg |-> paymentRef, pc |-> "awaiting",
          sent |-> <<get(Chars(ENDPOINT_CHECK_PAYMENT \o <<"/">> \o paymentRef.s))>>,
          reply |-> Undefined, outcome |-> Undefined]

\* Mutant: the reference is trimmed before it goes into the path.
checkPayment_Trimmed(paymentRef) ==
  IF ~Truthy(paymentRef) \/ Len(Trim(paymentRef.s)) = 0
    THEN [op |-> "checkPayment", arg |-> paymentRef, pc |-> "rejected", sent |-> <<>>,
          reply |-> Undefined, outcome |-> PlainError(MsgPaymentRefRequired)]
    ELSE [op |-> "checkPayment", arg |-> paymentRef, pc |-> "awaiting",
          sent |-> <<get(Chars(ENDPOINT_CHECK_PAYMENT \o <<"/">> \o Trim(paymentRef.s)))>>,
          reply |-> Undefined, outcome |-> Undefined]

\* OCPayService.checkPayment up to its await.
checkPayment(paymentRef) ==
  IF ~Truthy(paymentRef) \/ Len(Trim(paymentRef.s)) = 0
    THEN [op |-> "checkPayment", arg |-> paymentRef, pc |-> "rejected", sent |-> <<>>,
          reply |-> Undefined, outcome |-> PlainError(MsgPaymentRefRequired)]
    ELSE [op |-> "checkPayment", arg |-> paymentRef, pc |-> "awaiting",
          sent |-> <<get(Chars(ENDPOINT_CHECK_PAYMENT \o <<"/">> \o paymentRef.s))>>,
          reply |-> Undefined, outcome |-> Undefined]

\* The rest of post/get and of the service method once the transport has
\* resolved with response: handleResponse(response.data), then
\* return response.data of the envelope.
onFulfilled(call, response) ==
  LET r == handleResponse(response.data)
  IN  IF r.threw
        THEN [call EXCEPT !.pc = "rejected", !.reply = response, !.outcome = r.error]
        ELSE [call EXCEPT !.pc = "resolved", !.reply = response,
                          !.outcome = Get(r.value, "data")]

\* Mutant: a failed request is issued once more.
onRejected_Retry(call, error) ==
  [call EXCEPT !.sent = Append(call.sent, call.sent[1]), !.reply = error]

\* The response interceptor's error handler: throw handleException(error),
\* which post/get and the service method let through.
onRejected(call, error) ==
  [call EXCEPT !.pc = "rejected", !.reply = error, !.outcome = handleException(error)]

\* Mutant: the reply is kept in a field of the shared client, so it reaches
\* every invocation that is waiting.
settle_Shared(cs, i, c) ==
  [j \in DOMAIN cs |->
     IF j = i \/ cs[j].pc = "awaiting"
       THEN [cs[j] EXCEPT !.pc = c.pc, !.reply = c.reply, !.outcome = c.outcome]
       ELSE cs[j]]

\* The reply of invocation i's request resumes invocation i alone: the
\* response is a local of that call of post/get.
settle(cs, i, c) == [cs EXCEPT ![i] = c]

Init ==
  /\ ctorArgs = [accessToken |-> Str("tok"), options |-> DefaultOptions]
  /\ client = Client(ctorArgs.accessToken, ctorArgs.options)
  /\ calls = [i \in CallIds |-> Idle]
  /\ passed = [i \in CallIds |-> Undefined]

\* A caller invokes createLink with a request of requests.
CreateLinkFrom(i, requests) ==
  /\ calls[i].pc = "idle"
  /\ \E request \in requests :
       /\ calls' = [calls EXCEPT ![i] = createLink(request)]
       /\ passed' = [passed EXCEPT ![i] = request]
  /\ UNCHANGED <<client, ctorArgs>>

\* A caller invokes checkPayment with a payment reference of paymentRefs.
CheckPaymentFrom(i, paymentRefs) ==
  /\ calls[i].pc = "idle"
  /\ \E paymentRef \in paymentRefs :
       /\ calls' = [calls EXCEPT ![i] = checkPayment(paymentRef)]
       /\ passed' = [passed EXCEPT ![i] = paymentRef]
  /\ UNCHANGED <<client, ctorArgs>>

\* The transport resolves the pending request with a 2xx response whose
\* body is one of bodies.
ResponseFulfilledFrom(i, bodies) ==
  /\ calls[i].pc = "awaiting"
  /\ \E st \in OkStatuses, b \in bodies :
       calls' = settle(calls, i, onFulfilled(calls[i], HttpResponse(st, b)))
  /\ UNCHANGED <<passed, client, ctorArgs>>

\* The transport rejects the pending request with one of errors: a non-2xx
\* response or none.
ResponseRejectedFrom(i, errors) ==
  /\ calls[i].pc = "awaiting"
  /\ \E error \in errors :
       calls' = settle(calls, i, onRejected(calls[i], error))
  /\ UNCHANGED <<passed, client, ctorArgs>>

CreateLink(i) == CreateLinkFrom(i, Requests)

CheckPayment(i) == CheckPaymentFrom(i, PaymentRefs)

ResponseFulfilled(i) == ResponseFulfilledFrom(i, Bodies)

ResponseRejected(i) == ResponseRejectedFrom(i, AxiosErrors)

Next ==
  \/ \E i \in DOMAIN calls : CreateLink(i)
  \/ \E i \in DOMAIN calls : CheckPayment(i)
  \/ \E i \in DOMAIN calls : ResponseFulfilled(i)
  \/ \E i \in DOMAIN calls : ResponseRejected(i)

Spec == Init /\ [][Next]_vars

---------------------------------------------------------------------------
(* Several invocations in flight on one client built with options *)

\* How many invocations are issued on the one client.
NConc == 2

AccessToken == Str("tok")

\* The header mappings callers give as options.headers.
ClientHeaders ==
  {Undefined,
   Headers("X-Custom" :> Str("1")),
   Headers(HEADER_ACCESS_TOKEN :> Str("other")),
   Headers(HEADER_ACCESS_TOKEN :> AccessToken),
   Headers(HEADER_CONTENT_TYPE :> Str("text/plain"))}

\* The options callers construct the client with: none, or a ClientOptions
\* object whose timeout, baseURL and headers are each given or not.
ClientOptionsSet ==
  {DefaultOptions} \cup
  {[t |-> "object", timeout |-> ti, baseURL |-> b, headers |-> h] :
     ti \in {Undefined, Whole(0), Whole(60000)},
     b \in {Undefined, Str("http://localhost:8080")},
     h \in ClientHeaders}

ConcurrentRequests ==
  {BaseRequest, [BaseRequest EXCEPT !.productInfo = Undefined]}

ConcurrentPaymentRefs ==
  {Chars(<<"O", "C", "P", "L", "-", "A", "1">>), Chars(<<" ">>)}

ConcurrentBodies ==
  {Envelope(True, Str("payload"), Undefined, Undefined),
   Envelope(False, Undefined, Str("Link expired"), Undefined)}

ConcurrentErrors ==
  {[t |-> "object", response |-> HttpResponse(404, Null), message |-> Str("Request failed")],
   [t |-> "object", response |-> Undefined, message |-> Str("Network Error")]}

\* new OCPay(accessToken, options) with any of the options, and NConc
\* invocations not yet made.
InitClient ==
  /\ ctorArgs \in [accessToken : {AccessToken}, options : ClientOptionsSet]
  /\ client = Client(ctorArgs.accessToken, ctorArgs.options)
  /\ calls = [i \in 1..NConc |-> Idle]
  /\ passed = [i \in 1..NConc |-> Undefined]

ConcurrentCreateLink(i) == CreateLinkFrom(i, ConcurrentRequests)

ConcurrentCheckPayment(i) == CheckPaymentFrom(i, ConcurrentPaymentRefs)

ConcurrentFulfilled(i) == ResponseFulfilledFrom(i, ConcurrentBodies)

ConcurrentRejected(i) == ResponseRejectedFrom(i, ConcurrentErrors)

NextClient ==
  \/ \E i \in DOMAIN calls : ConcurrentCreateLink(i)
  \/ \E i \in DOMAIN calls : ConcurrentCheckPayment(i)
  \/ \E i \in DOMAIN calls : ConcurrentFulfilled(i)
  \/ \E i \in DOMAIN calls : ConcurrentRejected(i)

SpecClient == InitClient /\ [][NextClient]_vars

---------------------------------------------------------------------------
(* Properties *)

\* The transport rejected the invocation's request with this reply.
IsTransportError(reply) == "response" \in DOMAIN reply

\* The transport resolved the invocation's request with this reply.
IsHttpSuccess(reply) == "status" \in DOMAIN reply

\* The invocation was rejected before any request was issued.
LocallyRejected(c) == c.pc = "rejected" /\ c.sent = <<>>

\* The body a failed reply carries (undefined without a response).
ErrorBody(reply) == Get(Get(reply, "response"), "data")

\* The exception kind the classifier's table gives for a failed reply.
KindByStatus(reply) ==
  LET response == Get(reply, "response")
  IN  IF response = Undefined THEN "ApiException"
      ELSE IF response.status = Whole(400) THEN "ValidationException"
      ELSE IF response.status = Whole(403) THEN "UnauthorizedException"
      ELSE IF response.status = Whole(404) THEN "NotFoundException"
      ELSE IF response.status = Whole(410) THEN "PaymentExpiredException"
      ELSE "ApiException"

\* C1: for every failed HTTP call the exception's kind is fixed by the
\* status code alone: 400, 403, 404 and 410 give the four specialised
\* kinds, every other status and an absent response give exactly the
\* generic ApiException.
C1_KindByStatusAlone ==
  \A i \in DOMAIN calls :
    IsTransportError(calls[i].reply) =>
      /\ calls[i].pc = "rejected"
      /\ calls[i].outcome.kind = KindByStatus(calls[i].reply)

C1_Witness ==
  \E i \in DOMAIN calls :
    /\ IsTransportError(calls[i].reply)
    /\ Get(calls[i].reply, "response") # Undefined
    /\ calls[i].reply.response.status = Whole(401)
    /\ calls[i].outcome.kind = "ApiException"

\* A 2xx reply whose body says success: false.
LogicalFailure(reply) ==
  IsHttpSuccess(reply) /\ Get(reply.data, "success") = False

\* C2 as stated: a 2xx reply with success: false rejects with the generic
\* ApiException whose message is the body's message whenever the body has
\* a message field.
C2_MessageWhenPresent ==
  \A i \in DOMAIN calls :
    LogicalFailure(calls[i].reply) =>
      /\ calls[i].pc = "rejected"
      /\ calls[i].outcome.kind = "ApiException"
      /\ Get(calls[i].reply.data, "message") # Undefined =>
            calls[i].outcome.message = calls[i].reply.data.message

\* C2 amended: a 2xx reply with success: false rejects with the generic
\* ApiException; its message is the body's message when that is present
\* and not empty, and "API request failed" otherwise.
C2_LogicalFailureIsApiException ==
  \A i \in DOMAIN calls :
    LogicalFailure(calls[i].reply) =>
      /\ calls[i].pc = "rejected"
      /\ calls[i].outcome.kind = "ApiException"
      /\ calls[i].outcome.message =
            (IF Get(calls[i].reply.data, "message") \in {Undefined, Str("")}
               THEN Str(MsgApiRequestFailed)
               ELSE calls[i].reply.data.message)

C2_Witness ==
  \E i \in DOMAIN calls :
    /\ LogicalFailure(calls[i].reply)
    /\ calls[i].reply.status = Whole(200)
    /\ calls[i].reply.data.message = Str("Link expired")
    /\ calls[i].pc = "rejected"
    /\ calls[i].outcome.message = Str("Link expired")

\* C3 as stated: every API exception carries the status code of the
\* response that caused it, and 0 only when no response was received;
\* also for a 2xx response whose body says success: false.
C3_StatusCodeOfResponse ==
  \A i \in DOMAIN calls :
    (calls[i].pc = "rejected" /\ calls[i].outcome.kind \in ApiKinds) =>
      /\ IsHttpSuccess(calls[i].reply) =>
            calls[i].outcome.statusCode = calls[i].reply.status
      /\ (IsTransportError(calls[i].reply) /\ calls[i].reply.response # Undefined) =>
            calls[i].outcome.statusCode = calls[i].reply.response.status
      /\ calls[i].outcome.statusCode = Whole(0) =>
            (IsTransportError(calls[i].reply) /\ calls[i].reply.response = Undefined)

\* The error body of the expired-link scenario:
\* {success: false, message: "Link expired", meta: {requestId: "req-1"}}.
ExpiredBody ==
  Envelope(False, Undefined, Str("Link expired"),
           [t |-> "object", requestId |-> Str("req-1")])

\* The scenario of C4: status 410 with ExpiredBody gives a
\* PaymentExpiredException with message "Link expired", statusCode 410 and
\* requestId "req-1".
ExpiredScenario(c) ==
  (Get(c.reply, "response") = HttpResponse(410, ExpiredBody)) =>
    /\ c.outcome.kind = "PaymentExpiredException"
    /\ c.outcome.message = Str("Link expired")
    /\ c.outcome.statusCode = Whole(410)
    /\ c.outcome.requestId = Str("req-1")

\* C4 as stated: the exception of a failed HTTP call has the body's message
\* whenever the body has a message field and the transport's message
\* otherwise, the body's meta.requestId (absent when there is none), and
\* the raw body as errorData.
C4_MessageWhenFieldPresent ==
  \A i \in DOMAIN calls :
    IsTransportError(calls[i].reply) =>
      /\ calls[i].outcome.message =
            (IF Get(ErrorBody(calls[i].reply), "message") # Undefined
               THEN ErrorBody(calls[i].reply).message
               ELSE calls[i].reply.message)
      /\ calls[i].outcome.requestId = Get(Get(ErrorBody(calls[i].reply), "meta"), "requestId")
      /\ calls[i].outcome.errorData = ErrorBody(calls[i].reply)
      /\ ExpiredScenario(calls[i])

\* C4 amended: the exception of a failed HTTP call has the body's message
\* when that is present and not empty and the transport's message
\* otherwise, the body's meta.requestId (absent when there is none), and
\* the raw body as errorData; status 410 with the expired-link body gives a
\* PaymentExpiredException with "Link expired", 410 and "req-1".
C4_ExceptionFields ==
  \A i \in DOMAIN calls :
    IsTransportError(calls[i].reply) =>
      /\ calls[i].outcome.message =
            (IF Get(ErrorBody(calls[i].reply), "message") \in {Undefined, Str("")}
               THEN calls[i].reply.message
               ELSE ErrorBody(calls[i].reply).message)
      /\ calls[i].outcome.requestId = Get(Get(ErrorBody(calls[i].reply), "meta"), "requestId")
      /\ calls[i].outcome.errorData = ErrorBody(calls[i].reply)
      /\ ExpiredScenario(calls[i])

C4_Witness ==
  \E i \in DOMAIN calls :
    /\ IsTransportError(calls[i].reply)
    /\ Get(calls[i].reply, "response") = HttpResponse(410, ExpiredBody)
    /\ calls[i].outcome.requestId = Str("req-1")
    /\ calls[i].outcome.errorData = ExpiredBody

\* The value is there: neither missing nor empty (what the validators test
\* with if (x)).
Given(x) == x.t = "string" /\ x # Str("") /\ x # Chars(<<>>)

\* Blank(x): a missing, empty or whitespace-only string.
Blank(x) == ~Given(x) \/ \A k \in 1..Len(x.s) : x.s[k] \in Whitespace

\* An integer between MinAmount and MaxAmount.
AmountInRange(a) ==
  /\ a.t = "number"
  /\ a.halves % 2 = 0
  /\ 2 * MinAmount <= a.halves
  /\ a.halves <= 2 * MaxAmount

\* u parses as an absolute URL whose scheme is http or https.
IsHttpUrl(u) ==
  ParseUrl(u.s).ok /\ ParseUrl(u.s).scheme \in {<<"h", "t", "t", "p">>, <<"h", "t", "t", "p", "s">>}

\* The ten rules of C5, each read off the request: productInfo absent,
\* title missing or blank, title longer than 200, amount not an integer,
\* amount below 500, amount above 500000, description longer than 1000,
\* a feeMode given that is none of the three values, successMessage
\* longer than 500, a redirectUrl given that is no http/https URL.
ViolatesRule(request) ==
  LET p == request.productInfo
  IN  \/ p = Undefined
      \/ Blank(p.title)
      \/ Len(p.title.s) > MaxTitleLength
      \/ ~(p.amount.t = "number" /\ p.amount.halves % 2 = 0)
      \/ p.amount.halves < 2 * MinAmount
      \/ p.amount.halves > 2 * MaxAmount
      \/ (Given(p.description) /\ Len(p.description.s) > MaxDescriptionLength)
      \/ (Given(request.feeMode) /\ request.feeMode.v \notin FeeModeValues)
      \/ (Given(request.successMessage)
            /\ Len(request.successMessage.s) > MaxSuccessMessageLength)
      \/ (Given(request.redirectUrl) /\ ~IsHttpUrl(request.redirectUrl))

C7_InvalidRequestIsValidationException ==
  \A i \in DOMAIN calls :
    (calls[i].op = "createLink" /\ ViolatesRule(calls[i].arg)) =>
      /\ calls[i].pc = "rejected"
      /\ InstanceOf(calls[i].outcome, "ValidationException")

\* "The other fields are valid" is read as: the request passes
\* validateCreateLinkRequest once the field in question is replaced by a
\* valid value.

\* request with one field of its productInfo replaced
WithProduct(request, field, value) ==
  [request EXCEPT !.productInfo = [request.productInfo EXCEPT ![field] = value]]

\* C8: with the other fields valid, validation of the amount succeeds
\* exactly for an integer from 500 to 500000; an integer below 500 raises
\* the "at least 500" message, an integer above 500000 the "exceed
\* 500,000" message, and a non-integer the whole-number message.
C8_AmountRange ==
  \A i \in DOMAIN calls :
    (/\ calls[i].op = "createLink"
     /\ calls[i].arg.productInfo # Undefined
     /\ validateCreateLinkRequest(WithProduct(calls[i].arg, "amount", BaseAmount)) = Passed) =>
      LET a == calls[i].arg.productInfo.amount
          whole == a.t = "number" /\ a.halves % 2 = 0
      IN  /\ ~LocallyRejected(calls[i]) <=> AmountInRange(a)
          /\ calls[i].sent # <<>> <=> AmountInRange(a)
          /\ (whole /\ a.halves < 2 * MinAmount) =>
                calls[i].outcome = PlainError(MsgAmountMin)
          /\ (whole /\ a.halves > 2 * MaxAmount) =>
                calls[i].outcome = PlainError(MsgAmountMax)
          /\ ~whole => calls[i].outcome = PlainError(MsgAmountWhole)

C8_Witness ==
  \E i \in DOMAIN calls :
    /\ calls[i].op = "createLink"
    /\ calls[i].arg = WithProduct(BaseRequest, "amount", Whole(MinAmount - 1))
    /\ calls[i].outcome = PlainError(MsgAmountMin)

\* One of NO_FEE, SPLIT_FEE, CUSTOMER_FEE.
IsFeeMode(f) == f.t = "string" /\ f.v \in FeeModeValues

\* C9 as stated: with the other fields valid, validation succeeds exactly
\* when feeMode is one of the three values or absent; every feeMode that is
\* present and none of the three, the empty string included, is rejected
\* with the invalid-fee-mode message.
C9_EmptyFeeModeRejected ==
  \A i \in DOMAIN calls :
    (/\ calls[i].op = "createLink"
     /\ validateCreateLinkRequest([calls[i].arg EXCEPT !.feeMode = Undefined]) = Passed) =>
      LET f == calls[i].arg.feeMode
          absent == f \in {Undefined, Null}
      IN  /\ ~LocallyRejected(calls[i]) <=> (IsFeeMode(f) \/ absent)
          /\ (~absent /\ ~IsFeeMode(f)) =>
                calls[i].outcome = PlainError(MsgInvalidFeeMode)

\* C9 amended: with the other fields valid, validation succeeds exactly
\* when feeMode is one of the three values, absent or the empty string;
\* every non-empty feeMode that is none of the three is rejected with the
\* invalid-fee-mode message.
C9_FeeModeValues ==
  \A i \in DOMAIN calls :
    (/\ calls[i].op = "createLink"
     /\ validateCreateLinkRequest([calls[i].arg EXCEPT !.feeMode = Undefined]) = Passed) =>
      LET f == calls[i].arg.feeMode
          absent == f \in {Undefined, Null, Str("")}
      IN  /\ ~LocallyRejected(calls[i]) <=> (IsFeeMode(f) \/ absent)
          /\ (~absent /\ ~IsFeeMode(f)) =>
                calls[i].outcome = PlainError(MsgInvalidFeeMode)

C9_Witness ==
  \E i \in DOMAIN calls :
    /\ calls[i].op = "createLink"
    /\ calls[i].arg = [BaseRequest EXCEPT !.feeMode = Str("")]
    /\ calls[i].pc = "awaiting"
    /\ calls[i].sent # <<>>

\* C10 as stated: with the other fields valid, a redirectUrl that is
\* present (the empty string included) passes validation exactly when it
\* parses as an absolute URL whose scheme is http or https, in whatever
\* case the scheme is written.
C10_RedirectUrlIsHttpUrl ==
  \A i \in DOMAIN calls :
    (/\ calls[i].op = "createLink"
     /\ calls[i].arg.redirectUrl # Undefined
     /\ validateCreateLinkRequest([calls[i].arg EXCEPT !.redirectUrl = Undefined]) = Passed) =>
      (~LocallyRejected(calls[i]) <=> IsHttpUrl(calls[i].arg.redirectUrl))

CheckPaymentPath(paymentRef) ==
  Chars(ENDPOINT_CHECK_PAYMENT \o <<"/">> \o paymentRef.s)

\* C12: a checkPayment with an empty, missing or whitespace-only reference
\* rejects locally and issues no HTTP request at any point; every other
\* checkPayment issues exactly one request, a GET to
\* /v3/ocpay/checkPayment/ followed by the reference as given.
C12_CheckPaymentRequest ==
  \A i \in DOMAIN calls :
    calls[i].op = "checkPayment" =>
      IF Blank(calls[i].arg)
        THEN LocallyRejected(calls[i]) /\ calls[i].reply = Undefined
        ELSE /\ Len(calls[i].sent) = 1
             /\ calls[i].sent[1].method = "GET"
             /\ calls[i].sent[1].url = CheckPaymentPath(calls[i].arg)
             /\ StartsWith(calls[i].sent[1].url.s, ENDPOINT_CHECK_PAYMENT \o <<"/">>)

C12_Witness ==
  \E i \in DOMAIN calls :
    /\ calls[i].op = "checkPayment"
    /\ calls[i].arg = Chars(<<" ", "O", "C", "P", "L", "-", "A", "1">>)
    /\ calls[i].pc = "resolved"
    /\ Len(calls[i].sent) = 1

\* The request passed validation: createLink went on to post it.
Posted(c) == c.op = "createLink" /\ c.sent # <<>>

\* The fields createLink sends as they are, and the caller's request left
\* as it was passed.
SentVerbatim(i) ==
  LET body == calls[i].sent[1].data
  IN  /\ Len(calls[i].sent) = 1
      /\ calls[i].sent[1].method = "POST"
      /\ calls[i].sent[1].url = Chars(ENDPOINT_CREATE_LINK)
      /\ body.productInfo = passed[i].productInfo
      /\ body.successMessage = passed[i].successMessage
      /\ body.redirectUrl = passed[i].redirectUrl
      /\ calls[i].arg = passed[i]

\* C13 as stated: for a request that passes validation the posted body has
\* the request's feeMode whenever the request has one and NO_FEE when it
\* has none, every other field as the caller gave it, and the caller's
\* request is left unchanged.
C13_FeeModeWhenPresent ==
  \A i \in DOMAIN calls :
    Posted(calls[i]) =>
      /\ SentVerbatim(i)
      /\ calls[i].sent[1].data.feeMode =
            (IF passed[i].feeMode \in {Undefined, Null}
               THEN Str("NO_FEE")
               ELSE passed[i].feeMode)

\* C13 amended: for a request that passes validation the posted body has
\* the request's feeMode when the request has one that is not empty and
\* NO_FEE when it has none or an empty one, every other field as the
\* caller gave it, and the caller's request is left unchanged.
C13_BodySent ==
  \A i \in DOMAIN calls :
    Posted(calls[i]) =>
      /\ SentVerbatim(i)
      /\ calls[i].sent[1].data.feeMode =
            (IF passed[i].feeMode \in {Undefined, Null, Str("")}
               THEN Str("NO_FEE")
               ELSE passed[i].feeMode)

C13_Witness ==
  \E i \in DOMAIN calls :
    /\ Posted(calls[i])
    /\ passed[i].feeMode = Undefined
    /\ passed[i].redirectUrl = Chars(HttpPrefix \o Host)
    /\ calls[i].sent[1].data.feeMode = Str("NO_FEE")
    /\ calls[i].arg.feeMode = Undefined

\* C14: an invocation issues at most one HTTP request over its whole
\* execution; once its request has failed it stays rejected with that one
\* request issued, and what the caller receives is the classifier's
\* exception for that failure, every field as the classifier set it.
C14_NoRetry ==
  \A i \in DOMAIN calls :
    /\ Len(calls[i].sent) <= 1
    /\ IsTransportError(calls[i].reply) =>
          /\ calls[i].pc = "rejected"
          /\ Len(calls[i].sent) = 1
          /\ calls[i].outcome = handleException(calls[i].reply)

C14_Witness ==
  \E i \in DOMAIN calls :
    /\ calls[i].op = "checkPayment"
    /\ IsTransportError(calls[i].reply)
    /\ calls[i].reply.response = Undefined
    /\ calls[i].pc = "rejected"
    /\ calls[i].outcome.statusCode = Whole(0)
    /\ Len(calls[i].sent) = 1

\* The messages of the ten rules, in the order of C17.
RuleMessages ==
  <<MsgProductInfoRequired, MsgTitleRequired, MsgTitleTooLong, MsgAmountWhole,
    MsgAmountMin, MsgAmountMax, MsgDescriptionTooLong, MsgInvalidFeeMode,
    MsgSuccessMessageTooLong, MsgInvalidRedirectUrl>>

\* Whether request violates the k-th of the ten rules.
ViolatesNth(request, k) ==
  LET p == request.productInfo
      whole == p.amount.t = "number" /\ p.amount.halves % 2 = 0
  IN  CASE k = 1 -> p = Undefined
        [] k = 2 -> p # Undefined /\ Blank(p.title)
        [] k = 3 -> p # Undefined /\ Given(p.title) /\ Len(p.title.s) > MaxTitleLength
        [] k = 4 -> p # Undefined /\ ~whole
        [] k = 5 -> p # Undefined /\ whole /\ p.amount.halves < 2 * MinAmount
        [] k = 6 -> p # Undefined /\ whole /\ p.amount.halves > 2 * MaxAmount
        [] k = 7 -> p # Undefined /\ Given(p.description)
                      /\ Len(p.description.s) > MaxDescriptionLength
        [] k = 8 -> Given(request.feeMode) /\ request.feeMode.v \notin FeeModeValues
        [] k = 9 -> Given(request.successMessage)
                      /\ Len(request.successMessage.s) > MaxSuccessMessageLength
        [] OTHER -> Given(request.redirectUrl) /\ ~IsHttpUrl(request.redirectUrl)

\* The rules request violates.
Violated(request) == {k \in 1..Len(RuleMessages) : ViolatesNth(request, k)}

\* The least number of a set of numbers.
Least(ks) == CHOOSE k \in ks : \A other \in ks : k <= other

\* C17: a request that violates rules is rejected with one error, that of
\* the first rule it violates in the order productInfo absent, title
\* blank, title > 200, amount not whole, amount < 500, amount > 500000,
\* description > 1000, invalid feeMode, successMessage > 500, invalid
\* redirectUrl; and the ten messages are pairwise distinct.
C17_FirstViolatedRule ==
  /\ \A j, k \in 1..Len(RuleMessages) : RuleMessages[j] = RuleMessages[k] => j = k
  /\ \A i \in DOMAIN calls :
       (calls[i].op = "createLink" /\ Violated(calls[i].arg) # {}) =>
         /\ LocallyRejected(calls[i])
         /\ calls[i].outcome = PlainError(RuleMessages[Least(Violated(calls[i].arg))])

C17_Witness ==
  \E i \in DOMAIN calls :
    /\ calls[i].op = "createLink"
    /\ calls[i].arg.productInfo # Undefined
    /\ calls[i].arg.productInfo.amount = Num(2 * MinAmount - 1)
    /\ Violated(calls[i].arg) = {4, 8}
    /\ calls[i].outcome = PlainError(MsgAmountWhole)

\* A 2xx reply whose body has success true or no success field.
NotDeclaredFailed(reply) ==
  IsHttpSuccess(reply) /\ Get(reply.data, "success") \in {True, Undefined}

\* C19 as stated: a 2xx reply is a failure only when the body's success is
\* exactly false; for every 2xx reply whose body has success true or no
\* success field the invocation resolves with the body's data field
\* (undefined when there is none) and raises nothing.
C19_NoSuccessFieldResolves ==
  \A i \in DOMAIN calls :
    /\ (IsHttpSuccess(calls[i].reply) /\ calls[i].pc = "rejected"
          /\ calls[i].outcome.kind \in ApiKinds) =>
          Get(calls[i].reply.data, "success") = False
    /\ NotDeclaredFailed(calls[i].reply) =>
          /\ handleResponse(calls[i].reply.data) = Return(calls[i].reply.data)
          /\ calls[i].pc = "resolved"
          /\ calls[i].outcome = Get(calls[i].reply.data, "data")

\* C19 amended: a 2xx reply is a failure only when the body's success is
\* exactly false; for every 2xx reply whose body is not null and has
\* success true or no success field the invocation resolves with the
\* body's data field (undefined when there is none) and raises nothing.
C19_OnlyFalseFails ==
  \A i \in DOMAIN calls :
    /\ (IsHttpSuccess(calls[i].reply) /\ calls[i].pc = "rejected"
          /\ calls[i].outcome.kind \in ApiKinds) =>
          Get(calls[i].reply.data, "success") = False
    /\ (NotDeclaredFailed(calls[i].reply) /\ calls[i].reply.data # Null) =>
          /\ handleResponse(calls[i].reply.data) = Return(calls[i].reply.data)
          /\ calls[i].pc = "resolved"
          /\ calls[i].outcome = Get(calls[i].reply.data, "data")

C19_Witness ==
  \E i \in DOMAIN calls :
    /\ IsHttpSuccess(calls[i].reply)
    /\ calls[i].reply.data # Null
    /\ Get(calls[i].reply.data, "success") = Undefined
    /\ Get(calls[i].reply.data, "data") = Str("payload")
    /\ calls[i].pc = "resolved"
    /\ calls[i].outcome = Str("payload")

\* What invocation i is when it is computed from its own argument and the
\* reply to its own request alone.
OwnOutcome(i) ==
  LET c == calls[i]
      started == IF c.op = "createLink" THEN createLink(passed[i])
                                         ELSE checkPayment(passed[i])
  IN  IF c.op = "none" THEN Idle
      ELSE IF c.reply = Undefined THEN started
      ELSE IF "response" \in DOMAIN c.reply THEN onRejected(started, c.reply)
      ELSE onFulfilled(started, c.reply)

\* The configuration the client was constructed with.
Configuration ==
  [accessToken |-> ctorArgs.accessToken,
   baseURL |-> IF Given(Get(ctorArgs.options, "baseURL"))
                 THEN ctorArgs.options.baseURL ELSE BASE_URL,
   contentType |-> IF Get(ctorArgs.options, "headers") # Undefined
                      /\ HEADER_CONTENT_TYPE \in DOMAIN ctorArgs.options.headers.entries
                     THEN ctorArgs.options.headers.entries[HEADER_CONTENT_TYPE]
                     ELSE CONTENT_TYPE_JSON]

\* C15: with several createLink and checkPayment invocations in flight on
\* one client, under every interleaving each invocation is what its own
\* argument and the reply to its own request make it, a step changes no
\* invocation but the one it belongs to, and the client's configuration
\* stays what it was at construction.
C15_Independent ==
  /\ [](/\ \A i \in DOMAIN calls : calls[i] = OwnOutcome(i)
        /\ client.accessToken = Configuration.accessToken
        /\ client.httpClient.baseURL = Configuration.baseURL
        /\ client.httpClient.headers[HEADER_CONTENT_TYPE] = Configuration.contentType)
  /\ [][/\ \A i, j \in DOMAIN calls :
             (calls[i]' # calls[i] /\ calls[j]' # calls[j]) => i = j
         /\ client' = client]_vars

C15_Witness ==
  \E i, j \in DOMAIN calls :
    /\ calls[i].op = "createLink" /\ calls[j].op = "checkPayment"
    /\ calls[i].pc = "rejected" /\ calls[i].outcome.kind = "NotFoundException"
    /\ calls[j].pc = "resolved" /\ calls[j].outcome = Str("payload")

\* C16 as stated: every request is transmitted with the timeout given in
\* the options when one is given, and with 30000 ms when none is.
C16_TimeoutAsGiven ==
  \A i \in DOMAIN calls : \A k \in DOMAIN calls[i].sent :
    transmitted(client.httpClient, calls[i].sent[k]).timeout =
      IF Get(ctorArgs.options, "timeout") # Undefined
        THEN ctorArgs.options.timeout
        ELSE Whole(DefaultTimeout)

\* The headers a request is transmitted with.
SentHeaders(request) == transmitted(client.httpClient, request).headers

\* The entries of options.headers (none when no headers are given).
OptionHeaders ==
  IF Get(ctorArgs.options, "headers") = Undefined
    THEN NoEntries
    ELSE ctorArgs.options.headers.entries

\* Every request carries the built-in headers and those of options.headers,
\* the latter's value standing for a name present in both.
HeadersMerged(request) ==
  /\ DOMAIN SentHeaders(request) =
       {HEADER_ACCESS_TOKEN, HEADER_CONTENT_TYPE} \cup DOMAIN OptionHeaders
  /\ \A h \in DOMAIN SentHeaders(request) :
       SentHeaders(request)[h] =
         IF h \in DOMAIN OptionHeaders THEN OptionHeaders[h]
         ELSE IF h = HEADER_ACCESS_TOKEN THEN ctorArgs.accessToken
         ELSE CONTENT_TYPE_JSON

\* C18 as stated: the headers of every request are the built-in ones
\* merged with options.headers, the latter winning, and X-Access-Token is
\* the constructor's accessToken exactly when options.headers has no
\* X-Access-Token entry.
C18_TokenIffNoEntry ==
  \A i \in DOMAIN calls : \A k \in DOMAIN calls[i].sent :
    /\ HeadersMerged(calls[i].sent[k])
    /\ SentHeaders(calls[i].sent[k])[HEADER_ACCESS_TOKEN] = ctorArgs.accessToken
         <=> HEADER_ACCESS_TOKEN \notin DOMAIN OptionHeaders

\* C18 amended: the headers of every request are the built-in ones merged
\* with options.headers, the latter winning, and X-Access-Token is the
\* constructor's accessToken exactly when options.headers has no
\* X-Access-Token entry or has one whose value is the accessToken.
C18_HeadersMerged ==
  \A i \in DOMAIN calls : \A k \in DOMAIN calls[i].sent :
    /\ HeadersMerged(calls[i].sent[k])
    /\ SentHeaders(calls[i].sent[k])[HEADER_ACCESS_TOKEN] = ctorArgs.accessToken
         <=> \/ HEADER_ACCESS_TOKEN \notin DOMAIN OptionHeaders
             \/ OptionHeaders[HEADER_ACCESS_TOKEN] = ctorArgs.accessToken

C18_Witness ==
  \E i \in DOMAIN calls :
    /\ calls[i].sent # <<>>
    /\ HEADER_ACCESS_TOKEN \in DOMAIN OptionHeaders
    /\ OptionHeaders[HEADER_ACCESS_TOKEN] = Str("other")
    /\ SentHeaders(calls[i].sent[1])[HEADER_ACCESS_TOKEN] = Str("other")
    /\ SentHeaders(calls[i].sent[1])[HEADER_CONTENT_TYPE] = CONTENT_TYPE_JSON

====
